---- MODULE Spec2Model ----
(***************************************************************************)
(* Model of tensorlayer/dataflow/tensorflow_data.py: the dataset wrappers  *)
(* (FromGenerator, FromSlices, Batch, Concat, Map, Repeat, Shuffle, Zip,   *)
(* Dataloader), the abstract classes Dataset and IterableDataset, and the  *)
(* tf.data pipeline the wrappers build and the framework then iterates.    *)
(*                                                                         *)
(* A behaviour is one call of one public function with arguments drawn     *)
(* from bounded sets, followed (when the call returned a dataset) by up to *)
(* two passes of the framework's iterator over the returned pipeline.      *)
(***************************************************************************)
EXTENDS Integers, Sequences, FiniteSets

VARIABLES pc, call, res, err, it, out, pass, out1

vars == <<pc, call, res, err, it, out, pass, out1>>

----------------------------------------------------------------------------
(* Bounds of the model.                                                    *)

MaxLen == 3        \* longest source dataset
MaxBatch == 3      \* largest batch_size
MaxBuf == 3        \* largest shuffle buffer_size
MaxCount == 2      \* largest finite repeat count
MaxConcat == 3     \* longest list given to Concat
MaxZip == 2        \* longest list given to Zip

\* iteration of an endless pipeline is cut after this many elements; every
\* finite pipeline of the model is shorter
MaxOut == MaxLen * MaxCount + 1

----------------------------------------------------------------------------
(* Python values.                                                          *)

\* an optional integer: None, or an int k
None == <<>>
Some(k) == <<k>>

\* a python object that is no tf.data dataset (it has no .batch, .map, ...)
NotADataset == [op |-> "object"]

IsDataset(d) == d.op \notin {"object", "Dataset", "IterableDataset"}

\* outcome of a call: a returned value, or an exception with the place it is
\* raised at: "raise" (a raise statement of this module), "builtin" (a python
\* built-in operation evaluated in this module's body: len, indexing, tuple,
\* attribute lookup), "framework" (inside the tf.data call)
Ok(v) == [ok |-> TRUE, v |-> v]
Raise(kind, at) == [ok |-> FALSE, kind |-> kind, at |-> at]

NoError == [kind |-> "none", at |-> "none"]

\* the elements 1..n in order, as tf.data.Dataset.range(1, n+1) yields them
Range(n) == [i \in 1..n |-> i]

----------------------------------------------------------------------------
(* The framework's dataset constructors: each returns a node of the        *)
(* pipeline graph, or raises.                                              *)

tf_from_tensor_slices(datas) ==
    Ok([op |-> "from_tensor_slices", data |-> datas])

tf_from_generator(generator, output_types) ==
    Ok([op |-> "from_generator", data |-> generator, output_types |-> output_types])

tf_batch(dataset, batch_size, drop_remainder) ==
    IF batch_size = None THEN Raise("ValueError", "framework")
    ELSE IF batch_size[1] < 1 THEN Raise("InvalidArgumentError", "framework")
    ELSE Ok([op |-> "batch", input |-> dataset, batch_size |-> batch_size[1],
             drop_remainder |-> drop_remainder])

tf_concatenate(dataset, other) ==
    IF ~IsDataset(other) THEN Raise("TypeError", "framework")
    ELSE Ok([op |-> "concatenate", input |-> dataset, other |-> other])

tf_map(dataset, map_func) ==
    Ok([op |-> "map", input |-> dataset, map_func |-> map_func])

tf_repeat(dataset, count) ==
    Ok([op |-> "repeat", input |-> dataset, count |-> count])

tf_shuffle(dataset, buffer_size, seed, reshuffle_each_iteration) ==
    IF buffer_size = None THEN Raise("ValueError", "framework")
    ELSE IF buffer_size[1] < 1 THEN Raise("InvalidArgumentError", "framework")
    ELSE Ok([op |-> "shuffle", input |-> dataset, buffer_size |-> buffer_size[1],
             seed |-> seed, reshuffle_each_iteration |-> reshuffle_each_iteration])

tf_zip(datasets) ==
    IF \E i \in 1..Len(datasets) : ~IsDataset(datasets[i])
    THEN Raise("TypeError", "framework")
    ELSE Ok([op |-> "zip", inputs |-> datasets])

tf_prefetch(dataset, buffer_size) ==
    Ok([op |-> "prefetch", input |-> dataset, buffer_size |-> buffer_size])

AUTOTUNE == -1

----------------------------------------------------------------------------
(* The wrappers of tensorflow_data.py.                                     *)

\* tuple(output_types): None is not iterable
tuple(x) == IF x = None THEN Raise("TypeError", "builtin") ELSE Ok(x)

\* dataset.<method>: attribute lookup on the dataset argument
GetAttr(dataset) ==
    IF IsDataset(dataset) THEN Ok(dataset) ELSE Raise("AttributeError", "builtin")

FromGenerator(generator, output_types) ==
    LET t == tuple(output_types)
    IN  IF ~t.ok THEN t ELSE tf_from_generator(generator, t.v)

\* Batch, were drop_last not passed on as drop_remainder
Batch_KeepsRemainder(dataset, batch_size, drop_last) ==
    IF ~GetAttr(dataset).ok THEN GetAttr(dataset)
    ELSE tf_batch(dataset, batch_size, FALSE)

Batch(dataset, batch_size, drop_last) ==
    IF ~GetAttr(dataset).ok THEN GetAttr(dataset)
    ELSE tf_batch(dataset, batch_size, drop_last)

\* the statements dataset.concatenate(datasets[i]), i = 1 .. dataset_num-1
\* (0-based), whose results the loop does not keep
ConcatLoop(dataset, datasets) ==
    [i \in 2..Len(datasets) |->
        IF ~GetAttr(dataset).ok THEN GetAttr(dataset)
        ELSE tf_concatenate(dataset, datasets[i])]

\* Concat, were it to reject an empty list itself
Concat_ChecksEmpty(datasets) ==
    IF Len(datasets) = 0 THEN Raise("ValueError", "raise")
    ELSE IF \E i \in 2..Len(datasets) : ~ConcatLoop(datasets[1], datasets)[i].ok
    THEN Raise("TypeError", "framework")
    ELSE Ok(datasets[1])

Concat(datasets) ==
    LET dataset_num == Len(datasets)
    IN  IF dataset_num = 0 THEN Raise("IndexError", "builtin")
        ELSE LET dataset == datasets[1]
                 stmts == ConcatLoop(dataset, datasets)
                 bad == {i \in 2..dataset_num : ~stmts[i].ok}
             IN  IF bad # {}
                 THEN stmts[CHOOSE i \in bad : \A j \in bad : i <= j]
                 ELSE Ok(dataset)

FromSlices(datas) == tf_from_tensor_slices(datas)

Map(dataset, map_func) ==
    IF ~GetAttr(dataset).ok THEN GetAttr(dataset)
    ELSE tf_map(dataset, map_func)

\* Repeat, were count not passed on
Repeat_IgnoresCount(dataset, count) ==
    IF ~GetAttr(dataset).ok THEN GetAttr(dataset)
    ELSE tf_repeat(dataset, None)

Repeat(dataset, count) ==
    IF ~GetAttr(dataset).ok THEN GetAttr(dataset)
    ELSE tf_repeat(dataset, count)

\* Shuffle, were the buffer one element larger than asked for
Shuffle_BufferOffByOne(dataset, buffer_size) ==
    IF ~GetAttr(dataset).ok THEN GetAttr(dataset)
    ELSE tf_shuffle(dataset, IF buffer_size = None THEN None ELSE Some(buffer_size[1] + 1),
                    None, TRUE)

Shuffle(dataset, buffer_size) ==
    IF ~GetAttr(dataset).ok THEN GetAttr(dataset)
    ELSE tf_shuffle(dataset, buffer_size, None, TRUE)

Zip(datasets) == tf_zip(datasets)

\* Dataloader, were the batches shuffled instead of the samples
Dataloader_BatchBeforeShuffle(dataset, batch_size, shuffle, drop_last, shuffle_buffer_size) ==
    LET b == Batch(dataset, batch_size, drop_last)
    IN  IF ~b.ok THEN b
        ELSE LET s == IF shuffle THEN Shuffle(b.v, shuffle_buffer_size) ELSE b
             IN  IF ~s.ok THEN s
                 ELSE tf_prefetch(s.v, AUTOTUNE)

Dataloader(dataset, batch_size, shuffle, drop_last, shuffle_buffer_size) ==
    LET s == IF shuffle THEN Shuffle(dataset, shuffle_buffer_size) ELSE Ok(dataset)
    IN  IF ~s.ok THEN s
        ELSE LET b == Batch(s.v, batch_size, drop_last)
             IN  IF ~b.ok THEN b
                 ELSE tf_prefetch(b.v, AUTOTUNE)

\* Dataset / IterableDataset
Dataset_call(self) == Ok(self)
Dataset_getitem(self, idx) == Raise("NotImplementedError", "raise")
Dataset_len(self) == Raise("NotImplementedError", "raise")
IterableDataset_call(self) == Ok(self)
IterableDataset_iter(self) == Raise("NotImplementedError", "raise")

----------------------------------------------------------------------------
(* The framework's iterators.  MakeIter builds the iterator of a pipeline  *)
(* node; GetNext is one get_next call: the set of outcomes it can have,    *)
(* each the end of the sequence or an element, with the iterator after it. *)

MapFuncs == {"double", "negate"}

Apply(map_func, x) == IF map_func = "double" THEN 2 * x ELSE 0 - x

EndOfSequence(i) == [eos |-> TRUE, it |-> i]
Element(x, i) == [eos |-> FALSE, it |-> i, v |-> x]

RemoveAt(s, i) == [j \in 1..(Len(s) - 1) |-> IF j < i THEN s[j] ELSE s[j + 1]]

\* prev: the order the shuffle stage produced in the previous pass (<<>>
\* in the first); epoch: the number of the pass
RECURSIVE MakeIter(_, _, _)
MakeIter(d, epoch, prev) ==
    CASE d.op \in {"from_tensor_slices", "from_generator"} ->
            [op |-> "source", data |-> d.data, pos |-> 1]
      [] d.op = "batch" ->
            [op |-> "batch", input |-> MakeIter(d.input, epoch, prev),
             batch_size |-> d.batch_size, drop_remainder |-> d.drop_remainder]
      [] d.op = "concatenate" ->
            [op |-> "concatenate", input |-> MakeIter(d.input, epoch, prev),
             other |-> MakeIter(d.other, epoch, prev), second |-> FALSE]
      [] d.op = "map" ->
            [op |-> "map", input |-> MakeIter(d.input, epoch, prev),
             map_func |-> d.map_func]
      [] d.op = "repeat" ->
            [op |-> "repeat", input |-> MakeIter(d.input, epoch, prev),
             fresh |-> MakeIter(d.input, epoch, prev),
             count |-> d.count, i |-> 0, first_call |-> TRUE]
      [] d.op = "shuffle" ->
            [op |-> "shuffle", input |-> MakeIter(d.input, epoch, prev),
             buffer_size |-> d.buffer_size, buffer |-> <<>>,
             seed |-> d.seed, epoch |-> epoch, n |-> 0,
             replay |-> (epoch > 1 /\ ~d.reshuffle_each_iteration),
             order |-> prev]
      [] d.op = "zip" ->
            [op |-> "zip",
             inputs |-> [k \in 1..Len(d.inputs) |-> MakeIter(d.inputs[k], epoch, prev)]]
      [] d.op = "prefetch" ->
            [op |-> "prefetch", input |-> MakeIter(d.input, epoch, prev)]

\* the slots of the shuffle buffer the next element may be drawn from
ShuffleDraws(i) ==
    IF i.replay /\ i.n < Len(i.order)
    THEN {k \in 1..Len(i.buffer) : i.buffer[k] = i.order[i.n + 1]}
    ELSE IF i.seed = None THEN 1..Len(i.buffer)
    ELSE {((i.seed[1] + i.epoch + i.n) % Len(i.buffer)) + 1}

RECURSIVE GetNext(_)
RECURSIVE BatchCollect(_, _, _)
RECURSIVE ShuffleFill(_, _, _)
RECURSIVE ZipCollect(_, _, _)

\* up to k more elements of the input: {[items, it]}
BatchCollect(i, k, acc) ==
    IF k = 0 THEN {[items |-> acc, it |-> i]}
    ELSE UNION { IF o.eos THEN {[items |-> acc, it |-> o.it]}
                 ELSE BatchCollect(o.it, k - 1, Append(acc, o.v))
                 : o \in GetNext(i) }

\* the buffer filled from the input up to size: {[buffer, it]}
ShuffleFill(i, buffer, size) ==
    IF Len(buffer) >= size THEN {[buffer |-> buffer, it |-> i]}
    ELSE UNION { IF o.eos THEN {[buffer |-> buffer, it |-> o.it]}
                 ELSE ShuffleFill(o.it, Append(buffer, o.v), size)
                 : o \in GetNext(i) }

\* one element of each input from the k-th on: {[eos, items, its]}
ZipCollect(its, k, acc) ==
    IF k > Len(its) THEN {[eos |-> FALSE, items |-> acc, its |-> its]}
    ELSE UNION { IF o.eos THEN {[eos |-> TRUE, items |-> acc, its |-> its]}
                 ELSE ZipCollect([its EXCEPT ![k] = o.it], k + 1, Append(acc, o.v))
                 : o \in GetNext(its[k]) }

GetNext(i) ==
    CASE i.op = "source" ->
            IF i.pos > Len(i.data) THEN {EndOfSequence(i)}
            ELSE {Element(i.data[i.pos], [i EXCEPT !.pos = @ + 1])}
      [] i.op = "batch" ->
            { IF c.items = <<>> \/ (i.drop_remainder /\ Len(c.items) < i.batch_size)
              THEN EndOfSequence([i EXCEPT !.input = c.it])
              ELSE Element(c.items, [i EXCEPT !.input = c.it])
              : c \in BatchCollect(i.input, i.batch_size, <<>>) }
      [] i.op = "concatenate" ->
            IF i.second
            THEN { IF o.eos THEN EndOfSequence([i EXCEPT !.other = o.it])
                   ELSE Element(o.v, [i EXCEPT !.other = o.it])
                   : o \in GetNext(i.other) }
            ELSE UNION { IF o.eos THEN GetNext([i EXCEPT !.input = o.it, !.second = TRUE])
                         ELSE {Element(o.v, [i EXCEPT !.input = o.it])}
                         : o \in GetNext(i.input) }
      [] i.op = "map" ->
            { IF o.eos THEN EndOfSequence([i EXCEPT !.input = o.it])
              ELSE Element(Apply(i.map_func, o.v), [i EXCEPT !.input = o.it])
              : o \in GetNext(i.input) }
      [] i.op = "repeat" ->
            IF i.count # None /\ i.count[1] >= 0
            THEN \* a finite count
                 IF i.i >= i.count[1] THEN {EndOfSequence(i)}
                 ELSE UNION { IF o.eos
                              THEN GetNext([i EXCEPT !.input = i.fresh, !.i = @ + 1])
                              ELSE {Element(o.v, [i EXCEPT !.input = o.it])}
                              : o \in GetNext(i.input) }
            ELSE \* None or a negative count: forever, unless a repetition
                 \* ends on its first call
                 UNION { IF o.eos
                         THEN IF i.first_call THEN {EndOfSequence([i EXCEPT !.input = o.it])}
                              ELSE GetNext([i EXCEPT !.input = i.fresh, !.first_call = TRUE])
                         ELSE {Element(o.v, [i EXCEPT !.input = o.it, !.first_call = FALSE])}
                         : o \in GetNext(i.input) }
      [] i.op = "shuffle" ->
            UNION { LET j == [i EXCEPT !.input = f.it, !.buffer = f.buffer]
                    IN  IF f.buffer = <<>> THEN {EndOfSequence(j)}
                        ELSE { Element(f.buffer[k],
                                       [j EXCEPT !.buffer = RemoveAt(f.buffer, k),
                                                 !.n = @ + 1])
                               : k \in ShuffleDraws(j) }
                    : f \in ShuffleFill(i.input, i.buffer, i.buffer_size) }
      [] i.op = "zip" ->
            { IF c.eos THEN EndOfSequence([i EXCEPT !.inputs = c.its])
              ELSE Element(c.items, [i EXCEPT !.inputs = c.its])
              : c \in ZipCollect(i.inputs, 1, <<>>) }
      [] i.op = "prefetch" ->
            { IF o.eos THEN EndOfSequence([i EXCEPT !.input = o.it])
              ELSE Element(o.v, [i EXCEPT !.input = o.it])
              : o \in GetNext(i.input) }

\* every complete pass the iterator can still make, each given as the
\* sequence of elements it yields after acc (finite pipelines only)
RECURSIVE RunsFrom(_, _)
RunsFrom(i, acc) ==
    UNION { IF o.eos THEN {acc} ELSE RunsFrom(o.it, Append(acc, o.v))
            : o \in GetNext(i) }

Runs(d) == RunsFrom(MakeIter(d, 1, <<>>), <<>>)

----------------------------------------------------------------------------
(* The arguments the calls are made with.                                  *)

SeqsUpTo(S, n) == UNION {[1..k -> S] : k \in 0..n}

\* a dataset of n elements, n = 0 .. MaxLen
Sources == {FromSlices(Range(n)).v : n \in 0..MaxLen}

DatasetArgs == Sources \cup {NotADataset}

BatchSizes == {None} \cup {Some(k) : k \in 0..MaxBatch}

BufferSizes == {Some(k) : k \in 0..MaxBuf}

Counts == {None} \cup {Some(k) : k \in (0 - 1)..MaxCount}

OutputTypes == {None, <<"int64">>}

\* the samples a pass of the shuffle stage produced, from what the pass
\* yielded: the batches flattened, for the loader
RECURSIVE Flatten(_)
Flatten(batches) ==
    IF batches = <<>> THEN <<>> ELSE Head(batches) \o Flatten(Tail(batches))

ShuffleOrder(c, yielded) == IF c.fn = "Dataloader" THEN Flatten(yielded) ELSE yielded

----------------------------------------------------------------------------
(* The state machine.                                                      *)

Init ==
    /\ pc = "idle"
    /\ call = [fn |-> "none"]
    /\ res = NotADataset
    /\ err = NoError
    /\ it = [op |-> "none"]
    /\ out = <<>>
    /\ pass = 0
    /\ out1 = <<>>

\* the call c returns or raises r
Returns(c, r) ==
    /\ call' = c
    /\ pc' = IF r.ok THEN "called" ELSE "failed"
    /\ res' = IF r.ok THEN r.v ELSE NotADataset
    /\ err' = IF r.ok THEN NoError ELSE [kind |-> r.kind, at |-> r.at]
    /\ UNCHANGED <<it, out, pass, out1>>

CallFromGenerator ==
    /\ pc = "idle"
    /\ \E n \in 0..MaxLen, t \in OutputTypes :
           Returns([fn |-> "FromGenerator", generator |-> Range(n), output_types |-> t],
                   FromGenerator(Range(n), t))

CallFromSlices ==
    /\ pc = "idle"
    /\ \E n \in 0..MaxLen :
           Returns([fn |-> "FromSlices", datas |-> Range(n)], FromSlices(Range(n)))

CallBatch ==
    /\ pc = "idle"
    /\ \E d \in DatasetArgs, b \in BatchSizes, dl \in BOOLEAN :
           Returns([fn |-> "Batch", dataset |-> d, batch_size |-> b, drop_last |-> dl],
                   Batch(d, b, dl))

CallConcat ==
    /\ pc = "idle"
    /\ \E ds \in SeqsUpTo(DatasetArgs, MaxConcat) :
           Returns([fn |-> "Concat", datasets |-> ds], Concat(ds))

CallMap ==
    /\ pc = "idle"
    /\ \E d \in DatasetArgs, f \in MapFuncs :
           Returns([fn |-> "Map", dataset |-> d, map_func |-> f], Map(d, f))

CallRepeat ==
    /\ pc = "idle"
    /\ \E d \in DatasetArgs, c \in Counts :
           Returns([fn |-> "Repeat", dataset |-> d, count |-> c], Repeat(d, c))

CallShuffle ==
    /\ pc = "idle"
    /\ \E d \in DatasetArgs, b \in BufferSizes :
           Returns([fn |-> "Shuffle", dataset |-> d, buffer_size |-> b], Shuffle(d, b))

CallZip ==
    /\ pc = "idle"
    /\ \E ds \in SeqsUpTo(DatasetArgs, MaxZip) :
           Returns([fn |-> "Zip", datasets |-> ds], Zip(ds))

CallDataloader ==
    /\ pc = "idle"
    /\ \E d \in DatasetArgs, b \in BatchSizes, sh \in BOOLEAN, dl \in BOOLEAN,
          sb \in BufferSizes :
           Returns([fn |-> "Dataloader", dataset |-> d, batch_size |-> b, shuffle |-> sh,
                    drop_last |-> dl, shuffle_buffer_size |-> sb],
                   Dataloader(d, b, sh, dl, sb))

CallDatasetCall ==
    /\ pc = "idle"
    /\ Returns([fn |-> "Dataset.__call__"], Dataset_call([op |-> "Dataset"]))

CallDatasetGetitem ==
    /\ pc = "idle"
    /\ \E idx \in 0..MaxLen :
           Returns([fn |-> "Dataset.__getitem__", idx |-> idx],
                   Dataset_getitem([op |-> "Dataset"], idx))

CallDatasetLen ==
    /\ pc = "idle"
    /\ Returns([fn |-> "Dataset.__len__"], Dataset_len([op |-> "Dataset"]))

CallIterableDatasetCall ==
    /\ pc = "idle"
    /\ Returns([fn |-> "IterableDataset.__call__"],
               IterableDataset_call([op |-> "IterableDataset"]))

CallIterableDatasetIter ==
    /\ pc = "idle"
    /\ Returns([fn |-> "IterableDataset.__iter__"],
               IterableDataset_iter([op |-> "IterableDataset"]))

\* the framework makes an iterator of the returned pipeline: the first pass
StartIter ==
    /\ pc = "called"
    /\ IsDataset(res)
    /\ it' = MakeIter(res, 1, <<>>)
    /\ out' = <<>>
    /\ pass' = 1
    /\ pc' = "iterating"
    /\ UNCHANGED <<call, res, err, out1>>

\* one get_next of the framework's iterator
IterNext ==
    /\ pc = "iterating"
    /\ Len(out) < MaxOut
    /\ \E o \in GetNext(it) :
          /\ it' = o.it
          /\ out' = IF o.eos THEN out ELSE Append(out, o.v)
          /\ pc' = IF o.eos THEN "done" ELSE "iterating"
    /\ UNCHANGED <<call, res, err, pass, out1>>

\* a second pass over the same pipeline: a new iterator
NextPass ==
    /\ pc = "done"
    /\ pass = 1
    /\ out1' = out
    /\ it' = MakeIter(res, 2, ShuffleOrder(call, out))
    /\ out' = <<>>
    /\ pass' = 2
    /\ pc' = "iterating"
    /\ UNCHANGED <<call, res, err>>

Next ==
    \/ CallDatasetCall
    \/ CallDatasetGetitem
    \/ CallDatasetLen
    \/ CallIterableDatasetCall
    \/ CallIterableDatasetIter
    \/ CallFromGenerator
    \/ CallBatch
    \/ CallConcat
    \/ CallFromSlices
    \/ CallMap
    \/ CallRepeat
    \/ CallShuffle
    \/ CallZip
    \/ CallDataloader
    \/ StartIter
    \/ IterNext
    \/ NextPass

Spec == Init /\ [][Next]_vars

----------------------------------------------------------------------------
(* Helpers of the properties.                                              *)

IsPrefix(a, b) == Len(a) <= Len(b) /\ \A i \in 1..Len(a) : a[i] = b[i]

RECURSIVE Times(_, _)
Times(s, k) == IF k <= 0 THEN <<>> ELSE s \o Times(s, k - 1)

RECURSIVE ConcatAll(_)
ConcatAll(datasets) ==
    IF datasets = <<>> THEN <<>> ELSE Head(datasets).data \o ConcatAll(Tail(datasets))

\* the stages of a pipeline, in the order the samples pass through them
RECURSIVE Stages(_)
Stages(d) ==
    IF d.op \in {"from_tensor_slices", "from_generator"} THEN <<>>
    ELSE Append(Stages(d.input), d.op)

Perms(s) ==
    {[i \in 1..Len(s) |-> s[p[i]]] :
        p \in {q \in [1..Len(s) -> 1..Len(s)] : \A i, j \in 1..Len(s) : q[i] = q[j] => i = j}}

Iterated == pc \in {"iterating", "done"}

----------------------------------------------------------------------------
(* C1. Concat(datasets) on a non-empty list yields the elements of         *)
(* datasets[0], then those of datasets[1], ..., datasets[n-1], in list     *)
(* order.  The loop of Concat drops every dataset.concatenate(...) result  *)
(* and returns datasets[0], so this fails for n >= 2.                      *)
C1_ConcatYieldsAllInOrder ==
    (call.fn = "Concat" /\ pc = "done") => out = ConcatAll(call.datasets)

----------------------------------------------------------------------------
(* C2. Dataloader builds shuffle -> batch -> prefetch, the shuffle stage   *)
(* (buffer shuffle_buffer_size, over the samples of the dataset) present   *)
(* exactly when shuffle is true, batch and prefetch always; what it yields *)
(* is what Batch(Shuffle(dataset, shuffle_buffer_size), batch_size,        *)
(* drop_last), or Batch(dataset, batch_size, drop_last) without shuffle,   *)
(* yields: the same possible passes, and every pass made is one of them.   *)
DataloaderReference(c) ==
    IF c.shuffle
    THEN LET s == Shuffle(c.dataset, c.shuffle_buffer_size)
         IN  IF s.ok THEN Batch(s.v, c.batch_size, c.drop_last) ELSE s
    ELSE Batch(c.dataset, c.batch_size, c.drop_last)

C2_DataloaderIsShuffleBatchPrefetch ==
    (call.fn = "Dataloader") =>
        LET ref == DataloaderReference(call)
        IN  /\ (pc = "failed") <=> ~ref.ok
            /\ pc = "failed" => err = [kind |-> ref.kind, at |-> ref.at]
            /\ pc # "failed" =>
                  /\ Stages(res) = IF call.shuffle THEN <<"shuffle", "batch", "prefetch">>
                                   ELSE <<"batch", "prefetch">>
                  /\ res.input.batch_size = call.batch_size[1]
                  /\ res.input.drop_remainder = call.drop_last
                  /\ call.shuffle =>
                        /\ res.input.input.buffer_size = call.shuffle_buffer_size[1]
                        /\ res.input.input.input = call.dataset
                  /\ ~call.shuffle => res.input.input = call.dataset
                  /\ pc = "called" => Runs(res) = Runs(ref.v)
                  /\ pc = "done" => out \in Runs(ref.v)

\* a pass of the loader over 3 samples in batches of 2, the samples shuffled
\* before they were batched
C2_Witness ==
    /\ call.fn = "Dataloader"
    /\ pc = "done"
    /\ call.shuffle
    /\ out = << <<2, 3>>, <<1>> >>

----------------------------------------------------------------------------
(* C3. Batch on N elements with batch_size B >= 1 groups consecutive rows  *)
(* in order: without drop_last ceil(N/B) batches, all of size B but a last *)
(* one of size N mod B when that is not 0, together the whole input; with  *)
(* drop_last floor(N/B) batches of size B, together the first              *)
(* B*floor(N/B) elements.                                                  *)
C3_BatchGroupsConsecutiveRows ==
    (call.fn = "Batch" /\ Iterated) =>
        LET data == call.dataset.data
            N == Len(data)
            B == call.batch_size[1]
        IN  /\ B >= 1
            /\ IsPrefix(Flatten(out), data)
            /\ \A i \in 1..(Len(out) - 1) : Len(out[i]) = B
            /\ pc = "done" =>
                  IF call.drop_last
                  THEN /\ Len(out) = N \div B
                       /\ \A i \in 1..Len(out) : Len(out[i]) = B
                       /\ Flatten(out) = SubSeq(data, 1, B * (N \div B))
                  ELSE /\ Len(out) = (N + B - 1) \div B
                       /\ Len(out) > 0 =>
                             Len(out[Len(out)]) = IF N % B # 0 THEN N % B ELSE B
                       /\ Flatten(out) = data

\* 3 elements in batches of 2 with drop_last: one batch, the third element
\* dropped
C3_Witness ==
    /\ call.fn = "Batch"
    /\ pc = "done"
    /\ call.drop_last
    /\ Len(call.dataset.data) = 3
    /\ out = << <<1, 2>> >>

----------------------------------------------------------------------------
(* C4. Repeat with a count k >= 0 yields the dataset's sequence exactly k  *)
(* times in a row and then ends; with count None or -1 it repeats without  *)
(* end: over a non-empty dataset the end of the sequence is never reached. *)
C4_RepeatCountTimesOrForever ==
    (call.fn = "Repeat" /\ Iterated) =>
        LET data == call.dataset.data
            N == Len(data)
            c == call.count
        IN  IF c # None /\ c[1] >= 0
            THEN /\ IsPrefix(out, Times(data, c[1]))
                 /\ pc = "done" => out = Times(data, c[1])
                 /\ (pc = "iterating" /\ out = Times(data, c[1])) =>
                       \A o \in GetNext(it) : o.eos
                 /\ (pc = "iterating" /\ out # Times(data, c[1])) =>
                       \A o \in GetNext(it) : ~o.eos
            ELSE /\ \A i \in 1..Len(out) : out[i] = data[((i - 1) % N) + 1]
                 /\ N > 0 => /\ pc # "done"
                             /\ \A o \in GetNext(it) : ~o.eos

\* two elements repeated twice, and the end reached
C4_Witness ==
    /\ call.fn = "Repeat"
    /\ pc = "done"
    /\ call.count = Some(2)
    /\ out = <<1, 2, 1, 2>>

\* an endless repeat of two elements, still going after three rounds
C4_WitnessForever ==
    /\ call.fn = "Repeat"
    /\ pc = "iterating"
    /\ call.count = None
    /\ out = <<1, 2, 1, 2, 1, 2>>

----------------------------------------------------------------------------
(* C5. Shuffle yields a permutation of the input, drawn through a buffer   *)
(* of buffer_size elements: the element at output position i comes from an *)
(* input position < i + buffer_size; buffer_size 1 keeps the order,        *)
(* buffer_size >= N allows every permutation; the shuffle is unseeded and  *)
(* reshuffles on every iteration (what a second pass can yield does not    *)
(* depend on the first).                                                   *)
C5_ShuffleIsBufferedPermutation ==
    (call.fn = "Shuffle" /\ pc # "failed") =>
        LET data == call.dataset.data
            N == Len(data)
            B == call.buffer_size[1]
        IN  /\ res.seed = None
            /\ res.reshuffle_each_iteration
            /\ res.buffer_size = B
            /\ pc = "called" => /\ Runs(res) \subseteq Perms(data)
                                /\ B >= N => Runs(res) = Perms(data)
                                /\ B = 1 => Runs(res) = {data}
            /\ Iterated =>
                  /\ \A i, j \in 1..Len(out) : out[i] = out[j] => i = j
                  /\ \A i \in 1..Len(out) :
                        \E p \in 1..N : /\ data[p] = out[i]
                                        /\ p - 1 < (i - 1) + B
                  /\ pc = "done" => out \in Perms(data)
                  /\ (pass = 2 /\ out = <<>> /\ pc = "iterating") =>
                        RunsFrom(it, <<>>) = Runs(res)

\* a second pass in another order than the first, through a buffer of 2
C5_Witness ==
    /\ call.fn = "Shuffle"
    /\ pc = "done"
    /\ pass = 2
    /\ call.buffer_size = Some(2)
    /\ out1 = <<1, 3, 2>>
    /\ out = <<2, 3, 1>>

----------------------------------------------------------------------------
(* C6. As claimed: every error of the public surface is raised by the      *)
(* framework.                                                              *)
C6_OnlyFrameworkErrors ==
    pc = "failed" => err.at = "framework"

AbstractMethods ==
    {"Dataset.__getitem__", "Dataset.__len__", "IterableDataset.__iter__"}

ForwardsDatasetMethod == {"Batch", "Map", "Repeat", "Shuffle", "Dataloader"}

ErrorKinds ==
    {"NotImplementedError", "IndexError", "TypeError", "AttributeError",
     "ValueError", "InvalidArgumentError"}

(* C6, amended.  The module defines no error kind of its own.  Its only    *)
(* raise statements are the NotImplementedError of Dataset.__getitem__,    *)
(* Dataset.__len__ and IterableDataset.__iter__, which always raise.       *)
(* Every other error is raised inside the framework call a function        *)
(* forwards to, or by a python built-in operation on the arguments before  *)
(* it: datasets[0] of an empty list in Concat (IndexError),                *)
(* tuple(output_types) of None in FromGenerator (TypeError), the lookup of *)
(* the forwarded method on an object that is no dataset (AttributeError).  *)
C6_ErrorOrigins ==
    /\ call.fn \in AbstractMethods => pc = "failed"
    /\ pc = "failed" =>
          /\ err.kind \in ErrorKinds
          /\ err.at \in {"raise", "builtin", "framework"}
          /\ err.at = "raise" <=> call.fn \in AbstractMethods
          /\ err.at = "raise" => err.kind = "NotImplementedError"
          /\ err.at = "builtin" =>
                \/ /\ call.fn = "Concat"
                   /\ call.datasets = <<>>
                   /\ err.kind = "IndexError"
                \/ /\ call.fn = "Concat"
                   /\ Len(call.datasets) >= 2
                   /\ ~IsDataset(call.datasets[1])
                   /\ err.kind = "AttributeError"
                \/ /\ call.fn = "FromGenerator"
                   /\ call.output_types = None
                   /\ err.kind = "TypeError"
                \/ /\ call.fn \in ForwardsDatasetMethod
                   /\ ~IsDataset(call.dataset)
                   /\ err.kind = "AttributeError"

\* Dataset.__getitem__ raising its NotImplementedError
C6_Witness ==
    /\ call.fn = "Dataset.__getitem__"
    /\ pc = "failed"
    /\ err = [kind |-> "NotImplementedError", at |-> "raise"]

----------------------------------------------------------------------------
(* C7. Each passthrough function validates its trivial arguments before    *)
(* forwarding: an empty list given to Concat, or a batch_size of None      *)
(* given to Dataloader, is rejected by a check of the wrapper, not by the  *)
(* framework call or an unguarded index.  The wrappers hold no check.      *)
C7_InvalidArgumentsRejectedByWrapper ==
    ( \/ (call.fn = "Concat" /\ call.datasets = <<>>)
      \/ (call.fn = "Dataloader" /\ call.batch_size = None) ) =>
        /\ pc = "failed"
        /\ err.at = "raise"

====
